---- MODULE Spec2Model ----
(***************************************************************************)
(* Unitree Go2 constants (asset_zoo/robots/unitree_go2/go2_constants.py):  *)
(* the module's initialization, statement by statement, the factory        *)
(* get_go2_robot_cfg, and the resolution of the configuration's pattern    *)
(* selectors against joint and geometry names.                             *)
(***************************************************************************)
EXTENDS Integers, Sequences, FiniteSets, TLC

(***************************************************************************)
(* Numbers.  A Python float is carried as the exact value                  *)
(*     (n / d) * NATURAL_FREQ^w        with n/d in lowest terms, d > 0,    *)
(* because NATURAL_FREQ = 62.83185307 = 6283185307 / 10^8 and its square   *)
(* do not fit 32-bit integers.  Only products, quotients and powers occur  *)
(* in the module, so the representation is closed and exact.               *)
(***************************************************************************)
RECURSIVE Gcd(_, _)
Gcd(a, b) == IF b = 0 THEN a ELSE Gcd(b, a % b)

Abs(x) == IF x < 0 THEN -x ELSE x

\* n/d as a number, in lowest terms
Q(n, d) ==
  LET g == Gcd(Abs(n), d)
  IN  [n |-> n \div g, d |-> d \div g, w |-> 0]

\* x * y, cancelling across before multiplying
Mul(x, y) ==
  LET g1 == Gcd(Abs(x.n), y.d)
      g2 == Gcd(Abs(y.n), x.d)
  IN  IF x.n = 0 \/ y.n = 0
      THEN [n |-> 0, d |-> 1, w |-> 0]
      ELSE [n |-> (x.n \div g1) * (y.n \div g2),
            d |-> (x.d \div g2) * (y.d \div g1),
            w |-> x.w + y.w]

IsZero(x) == x.n = 0
IsPositive(x) == x.n > 0

\* 1 / y for y # 0
Inv(y) ==
  IF y.n < 0 THEN [n |-> -y.d, d |-> -y.n, w |-> -y.w]
             ELSE [n |-> y.d, d |-> y.n, w |-> -y.w]

\* x / y for y # 0 (Python raises ZeroDivisionError for y = 0: see ForName)
Div(x, y) == Mul(x, Inv(y))

\* x ** 2
Sq(x) == Mul(x, x)

(***************************************************************************)
(* The spelling of the names and patterns that occur, character by         *)
(* character: TLA+ strings are atomic, regular expressions are not.        *)
(***************************************************************************)
Sfx_joint == <<"_", "j", "o", "i", "n", "t">>
Sfx_collision == <<"_", "c", "o", "l", "l", "i", "s", "i", "o", "n">>
Wd_hip == <<"h", "i", "p">>
Wd_thigh == <<"t", "h", "i", "g", "h">>
Wd_calf == <<"c", "a", "l", "f">>
Wd_foot == <<"f", "o", "o", "t">>
DotStar == <<".", "*">>

LegChars(l) ==
  IF l = "FL" THEN <<"F", "L">>
  ELSE IF l = "FR" THEN <<"F", "R">>
  ELSE IF l = "RL" THEN <<"R", "L">>
  ELSE <<"R", "R">>

PartChars(p) ==
  IF p = "hip" THEN Wd_hip ELSE IF p = "thigh" THEN Wd_thigh ELSE Wd_calf

Chars(s) ==
  IF s = "FL_hip_joint" THEN LegChars("FL") \o <<"_">> \o Wd_hip \o Sfx_joint
  ELSE IF s = "FR_hip_joint" THEN LegChars("FR") \o <<"_">> \o Wd_hip \o Sfx_joint
  ELSE IF s = "RL_hip_joint" THEN LegChars("RL") \o <<"_">> \o Wd_hip \o Sfx_joint
  ELSE IF s = "RR_hip_joint" THEN LegChars("RR") \o <<"_">> \o Wd_hip \o Sfx_joint
  ELSE IF s = "FL_thigh_joint" THEN LegChars("FL") \o <<"_">> \o Wd_thigh \o Sfx_joint
  ELSE IF s = "FR_thigh_joint" THEN LegChars("FR") \o <<"_">> \o Wd_thigh \o Sfx_joint
  ELSE IF s = "RL_thigh_joint" THEN LegChars("RL") \o <<"_">> \o Wd_thigh \o Sfx_joint
  ELSE IF s = "RR_thigh_joint" THEN LegChars("RR") \o <<"_">> \o Wd_thigh \o Sfx_joint
  ELSE IF s = "FL_calf_joint" THEN LegChars("FL") \o <<"_">> \o Wd_calf \o Sfx_joint
  ELSE IF s = "FR_calf_joint" THEN LegChars("FR") \o <<"_">> \o Wd_calf \o Sfx_joint
  ELSE IF s = "RL_calf_joint" THEN LegChars("RL") \o <<"_">> \o Wd_calf \o Sfx_joint
  ELSE IF s = "RR_calf_joint" THEN LegChars("RR") \o <<"_">> \o Wd_calf \o Sfx_joint
  ELSE IF s = "FL_foot_collision" THEN LegChars("FL") \o <<"_">> \o Wd_foot \o Sfx_collision
  ELSE IF s = "FR_foot_collision" THEN LegChars("FR") \o <<"_">> \o Wd_foot \o Sfx_collision
  ELSE IF s = "RL_foot_collision" THEN LegChars("RL") \o <<"_">> \o Wd_foot \o Sfx_collision
  ELSE IF s = "RR_foot_collision" THEN LegChars("RR") \o <<"_">> \o Wd_foot \o Sfx_collision
  ELSE IF s = "FL_calf_collision" THEN LegChars("FL") \o <<"_">> \o Wd_calf \o Sfx_collision
  ELSE IF s = "RR_calf_collision" THEN LegChars("RR") \o <<"_">> \o Wd_calf \o Sfx_collision
  ELSE IF s = "FL_foot_visual"
    THEN LegChars("FL") \o <<"_">> \o Wd_foot \o <<"_", "v", "i", "s", "u", "a", "l">>
  ELSE IF s = "A" THEN <<"A">>
  ELSE IF s = "B" THEN <<"B">>
  ELSE IF s = ".*_hip_joint" THEN DotStar \o <<"_">> \o Wd_hip \o Sfx_joint
  ELSE IF s = ".*_thigh_joint" THEN DotStar \o <<"_">> \o Wd_thigh \o Sfx_joint
  ELSE IF s = ".*_calf_joint" THEN DotStar \o <<"_">> \o Wd_calf \o Sfx_joint
  ELSE IF s = ".*thigh_joint" THEN DotStar \o Wd_thigh \o Sfx_joint
  ELSE IF s = ".*calf_joint" THEN DotStar \o Wd_calf \o Sfx_joint
  ELSE IF s = ".*R_hip_joint" THEN DotStar \o <<"R", "_">> \o Wd_hip \o Sfx_joint
  ELSE IF s = ".*L_hip_joint" THEN DotStar \o <<"L", "_">> \o Wd_hip \o Sfx_joint
  ELSE IF s = ".*" THEN DotStar
  ELSE IF s = ".*_collision" THEN DotStar \o Sfx_collision
  ELSE IF s = "^[FR][LR]_foot_collision$"
    THEN <<"^", "[", "F", "R", "]", "[", "L", "R", "]", "_">> \o Wd_foot
         \o Sfx_collision \o <<"$">>
  ELSE IF s = "^A$" THEN <<"^", "A", "$">>
  ELSE IF s = "^B$" THEN <<"^", "B", "$">>
  ELSE <<>>

(***************************************************************************)
(* Regular expressions, as far as the module's patterns use them:          *)
(* ^  $  .  .*  [set]  and literal characters.                             *)
(***************************************************************************)
\* the index of the first "]" at or after position i
RECURSIVE ClassEnd(_, _)
ClassEnd(p, i) ==
  IF i > Len(p) THEN i ELSE IF p[i] = "]" THEN i ELSE ClassEnd(p, i + 1)

\* the pattern's atoms from position i on
RECURSIVE Compile(_, _)
Compile(p, i) ==
  IF i > Len(p) THEN <<>>
  ELSE IF p[i] = "^" THEN <<[k |-> "bol", s |-> {}]>> \o Compile(p, i + 1)
  ELSE IF p[i] = "$" THEN <<[k |-> "eol", s |-> {}]>> \o Compile(p, i + 1)
  ELSE IF p[i] = "." /\ i < Len(p) /\ p[i + 1] = "*"
    THEN <<[k |-> "dotstar", s |-> {}]>> \o Compile(p, i + 2)
  ELSE IF p[i] = "." THEN <<[k |-> "any", s |-> {}]>> \o Compile(p, i + 1)
  ELSE IF p[i] = "["
    THEN LET e == ClassEnd(p, i + 1)
         IN  <<[k |-> "set", s |-> {p[j] : j \in (i + 1)..(e - 1)}]>>
             \o Compile(p, e + 1)
  ELSE <<[k |-> "set", s |-> {p[i]}]>> \o Compile(p, i + 1)

\* atoms[i..] match str[j..] up to the end of str
RECURSIVE MatchFrom(_, _, _, _)
MatchFrom(atoms, i, str, j) ==
  IF i > Len(atoms) THEN j = Len(str) + 1
  ELSE LET a == atoms[i]
       IN  IF a.k = "bol" THEN j = 1 /\ MatchFrom(atoms, i + 1, str, j)
           ELSE IF a.k = "eol"
             THEN j = Len(str) + 1 /\ MatchFrom(atoms, i + 1, str, j)
           ELSE IF a.k = "dotstar"
             THEN \E m \in j..(Len(str) + 1) : MatchFrom(atoms, i + 1, str, m)
           ELSE IF a.k = "any"
             THEN j <= Len(str) /\ MatchFrom(atoms, i + 1, str, j + 1)
           ELSE j <= Len(str) /\ str[j] \in a.s
                /\ MatchFrom(atoms, i + 1, str, j + 1)

\* full-string regex match of element name against pattern
FullMatch(pattern, name) ==
  MatchFrom(Compile(Chars(pattern), 1), 1, Chars(name), 1)

\* every pattern and every element name that occurs
AllPatterns ==
  {".*_hip_joint", ".*_thigh_joint", ".*_calf_joint", ".*thigh_joint",
   ".*calf_joint", ".*R_hip_joint", ".*L_hip_joint", ".*", ".*_collision",
   "^[FR][LR]_foot_collision$", "^A$", "^B$"}
AllNames ==
  {"FL_hip_joint", "FL_thigh_joint", "FL_calf_joint",
   "FR_hip_joint", "FR_thigh_joint", "FR_calf_joint",
   "RL_hip_joint", "RL_thigh_joint", "RL_calf_joint",
   "RR_hip_joint", "RR_thigh_joint", "RR_calf_joint",
   "FL_foot_collision", "FR_foot_collision", "RL_foot_collision",
   "RR_foot_collision", "FL_calf_collision", "RR_calf_collision",
   "FL_foot_visual", "A", "B"}

\* FullMatch, computed once for each pattern and name
MatchTable == [p \in AllPatterns |-> [n \in AllNames |-> FullMatch(p, n)]]
Match(pattern, name) == MatchTable[pattern][name]

(***************************************************************************)
(* Python values.  None and an optional value are the empty set and a      *)
(* singleton; a dict is the sequence of its <<key, value>> items in        *)
(* insertion order; a tuple is a sequence.                                 *)
(***************************************************************************)
None == {}
Some(x) == {x}
The(o) == CHOOSE x \in o : TRUE

DictKeys(d) == {d[i][1] : i \in DOMAIN d}
DictHas(d, k) == \E i \in DOMAIN d : d[i][1] = k
DictGet(d, k) == d[CHOOSE i \in DOMAIN d : d[i][1] = k][2]
\* d[k] = v: an existing key keeps its place, a new key is appended
DictSet(d, k, v) ==
  IF DictHas(d, k)
  THEN [i \in DOMAIN d |-> IF d[i][1] = k THEN <<k, v>> ELSE d[i]]
  ELSE Append(d, <<k, v>>)
\* how many items of d carry key k
DictCount(d, k) == Cardinality({i \in DOMAIN d : d[i][1] = k})

\* A configuration field of type  T | dict[str, T]
Scalar(v) == [shape |-> "scalar", value |-> v, items |-> <<>>]
Mapping(items) == [shape |-> "mapping", value |-> 0, items |-> items]

(***************************************************************************)
(* Bounds of the model.                                                    *)
(***************************************************************************)
\* calls of get_go2_robot_cfg in one run
MaxCalls == 3
\* longest element list handed to a resolution
MaxElems == 2

(***************************************************************************)
(* State.                                                                  *)
(*   pc        the module-level statement to run next, "done" after the    *)
(*             last one, "error" when one raised                           *)
(*   ns        the module namespace: name -> value, for the names bound    *)
(*   ai, ni    positions of the iterators of the two for loops             *)
(*   err       the exception raised ("" while none)                        *)
(*   writes    every item assignment to GO2_ACTION_SCALE, in order         *)
(*   returned  the configurations get_go2_robot_cfg has returned           *)
(*   call      the arguments of a resolve call                             *)
(*   resolved  the outcome of the last resolution                          *)
(***************************************************************************)
VARIABLES pc, ns, ai, ni, err, writes, returned, call, resolved

vars == <<pc, ns, ai, ni, err, writes, returned, call, resolved>>

Bind(name, v) == (name :> v) @@ ns

NoCall == [names |-> <<>>, sel |-> <<>>, prop |-> Scalar(0), default |-> None]
NoResult == [op |-> "none"]

(***************************************************************************)
(* Collaborators outside the file: mjlab.utils.actuator and the            *)
(* configuration dataclasses.                                              *)
(***************************************************************************)
\* rotor_inertia * gear_ratio ** 2
reflected_inertia(rotor_inertia, gear_ratio) ==
  Mul(rotor_inertia, Sq(Q(gear_ratio, 1)))

ElectricActuator(ri, vl, el) ==
  [reflected_inertia |-> ri, velocity_limit |-> vl, effort_limit |-> el]

BuiltinPositionActuatorCfg(names, st, da, el, ar) ==
  [cls |-> "BuiltinPositionActuatorCfg", joint_names_expr |-> names,
   stiffness |-> st, damping |-> da, effort_limit |-> el, armature |-> ar]

(***************************************************************************)
(* The module's statements: each definition is the right-hand side of the  *)
(* assignment of that name, evaluated in the namespace of the moment.      *)
(***************************************************************************)
ROTOR_INERTIA == Q(111842, 1000000000)
HIP_GEAR_RATIO == 6
KNEE_GEAR_RATIO == 12

HIP_ACTUATOR ==
  ElectricActuator(reflected_inertia(ROTOR_INERTIA, HIP_GEAR_RATIO),
                   Q(301, 10), Q(237, 10))

KNEE_ACTUATOR ==
  ElectricActuator(reflected_inertia(ROTOR_INERTIA, KNEE_GEAR_RATIO),
                   Q(1570, 100), Q(4543, 100))

\* 10.0 * 2.0 * 3.1415926535, the unit of the w exponent
NATURAL_FREQ == [n |-> 1, d |-> 1, w |-> 1]
DAMPING_RATIO == Q(2, 1)

STIFFNESS_HIP == Mul(ns["HIP_ACTUATOR"].reflected_inertia, Sq(NATURAL_FREQ))
DAMPING_HIP ==
  Mul(Mul(Mul(Q(2, 1), DAMPING_RATIO), ns["HIP_ACTUATOR"].reflected_inertia),
      NATURAL_FREQ)

STIFFNESS_KNEE == Mul(ns["KNEE_ACTUATOR"].reflected_inertia, Sq(NATURAL_FREQ))
\* variant: the knee damping taken from the hip actuator
DAMPING_KNEE_hip ==
  Mul(Mul(Mul(Q(2, 1), DAMPING_RATIO), ns["HIP_ACTUATOR"].reflected_inertia),
      NATURAL_FREQ)
DAMPING_KNEE ==
  Mul(Mul(Mul(Q(2, 1), DAMPING_RATIO), ns["KNEE_ACTUATOR"].reflected_inertia),
      NATURAL_FREQ)

GO2_HIP_ACTUATOR_CFG ==
  BuiltinPositionActuatorCfg(<<".*_hip_joint", ".*_thigh_joint">>,
    ns["STIFFNESS_HIP"], ns["DAMPING_HIP"],
    Some(ns["HIP_ACTUATOR"].effort_limit),
    ns["HIP_ACTUATOR"].reflected_inertia)

\* variant: the knee group also names the thigh pattern
GO2_KNEE_ACTUATOR_CFG_thigh ==
  BuiltinPositionActuatorCfg(<<".*_thigh_joint", ".*_calf_joint">>,
    ns["STIFFNESS_KNEE"], ns["DAMPING_KNEE"],
    Some(ns["KNEE_ACTUATOR"].effort_limit),
    ns["KNEE_ACTUATOR"].reflected_inertia)
\* variant: the knee group carries the hip effort limit
GO2_KNEE_ACTUATOR_CFG_hip_effort ==
  BuiltinPositionActuatorCfg(<<".*_calf_joint">>,
    ns["STIFFNESS_KNEE"], ns["DAMPING_KNEE"],
    Some(ns["HIP_ACTUATOR"].effort_limit),
    ns["KNEE_ACTUATOR"].reflected_inertia)
GO2_KNEE_ACTUATOR_CFG ==
  BuiltinPositionActuatorCfg(<<".*_calf_joint">>,
    ns["STIFFNESS_KNEE"], ns["DAMPING_KNEE"],
    Some(ns["KNEE_ACTUATOR"].effort_limit),
    ns["KNEE_ACTUATOR"].reflected_inertia)

\* variant: a hip key that matches the hips of both sides
INIT_STATE_hip_key ==
  [pos |-> <<Q(0, 1), Q(0, 1), Q(445, 1000)>>,
   joint_pos |-> << <<".*thigh_joint", Q(9, 10)>>,
                    <<".*calf_joint", Q(-18, 10)>>,
                    <<".*R_hip_joint", Q(1, 10)>>,
                    <<".*_hip_joint", Q(-1, 10)>> >>,
   joint_vel |-> << <<".*", Q(0, 1)>> >>]
INIT_STATE ==
  [pos |-> <<Q(0, 1), Q(0, 1), Q(445, 1000)>>,
   joint_pos |-> << <<".*thigh_joint", Q(9, 10)>>,
                    <<".*calf_joint", Q(-18, 10)>>,
                    <<".*R_hip_joint", Q(1, 10)>>,
                    <<".*L_hip_joint", Q(-1, 10)>> >>,
   joint_vel |-> << <<".*", Q(0, 1)>> >>]

\* _foot_regex
foot_regex == "^[FR][LR]_foot_collision$"

\* the fields CollisionCfg does not name keep no value here
FEET_ONLY_COLLISION ==
  [geom_names_expr |-> <<foot_regex>>,
   contype |-> Scalar(0),
   conaffinity |-> Scalar(1),
   condim |-> Scalar(3),
   priority |-> Scalar(1),
   friction |-> Scalar(<<Q(6, 10)>>),
   solimp |-> Scalar(<<Q(9, 10), Q(95, 100), Q(23, 1000)>>)]

\* variant: the catch-all key of condim declared before the foot key
FULL_COLLISION_catch_all_first ==
  [geom_names_expr |-> <<".*_collision">>,
   condim |-> Mapping(<< <<".*_collision", 1>>, <<foot_regex, 3>> >>),
   priority |-> Mapping(<< <<foot_regex, 1>> >>),
   friction |-> Mapping(<< <<foot_regex, <<Q(6, 10)>> >> >>),
   solimp |-> Mapping(<< <<foot_regex, <<Q(9, 10), Q(95, 100), Q(23, 1000)>> >> >>),
   contype |-> Scalar(1),
   conaffinity |-> Scalar(0)]
\* variant: priority keyed by the catch-all pattern
FULL_COLLISION_priority_all ==
  [geom_names_expr |-> <<".*_collision">>,
   condim |-> Mapping(<< <<foot_regex, 3>>, <<".*_collision", 1>> >>),
   priority |-> Mapping(<< <<".*_collision", 1>> >>),
   friction |-> Mapping(<< <<foot_regex, <<Q(6, 10)>> >> >>),
   solimp |-> Mapping(<< <<foot_regex, <<Q(9, 10), Q(95, 100), Q(23, 1000)>> >> >>),
   contype |-> Scalar(1),
   conaffinity |-> Scalar(0)]
\* variant: condim without its catch-all key
FULL_COLLISION_condim_feet_only ==
  [geom_names_expr |-> <<".*_collision">>,
   condim |-> Mapping(<< <<foot_regex, 3>> >>),
   priority |-> Mapping(<< <<foot_regex, 1>> >>),
   friction |-> Mapping(<< <<foot_regex, <<Q(6, 10)>> >> >>),
   solimp |-> Mapping(<< <<foot_regex, <<Q(9, 10), Q(95, 100), Q(23, 1000)>> >> >>),
   contype |-> Scalar(1),
   conaffinity |-> Scalar(0)]
FULL_COLLISION ==
  [geom_names_expr |-> <<".*_collision">>,
   condim |-> Mapping(<< <<foot_regex, 3>>, <<".*_collision", 1>> >>),
   priority |-> Mapping(<< <<foot_regex, 1>> >>),
   friction |-> Mapping(<< <<foot_regex, <<Q(6, 10)>> >> >>),
   solimp |-> Mapping(<< <<foot_regex, <<Q(9, 10), Q(95, 100), Q(23, 1000)>> >> >>),
   contype |-> Scalar(1),
   conaffinity |-> Scalar(0)]

GO2_ARTICULATION ==
  [actuators |-> <<ns["GO2_HIP_ACTUATOR_CFG"], ns["GO2_KNEE_ACTUATOR_CFG"]>>,
   soft_joint_pos_limit_factor |-> Q(9, 10)]

ACTION_SCALE_MULTIPLIER == Q(1, 4)

\* name = value, then on to the statement at next
Assign(at, name, value, next) ==
  /\ pc = at
  /\ ns' = Bind(name, value)
  /\ pc' = next
  /\ UNCHANGED <<ai, ni, err, writes, returned, call, resolved>>

Def_HIP_ACTUATOR ==
  Assign("HIP_ACTUATOR", "HIP_ACTUATOR", HIP_ACTUATOR, "KNEE_ACTUATOR")
Def_KNEE_ACTUATOR ==
  Assign("KNEE_ACTUATOR", "KNEE_ACTUATOR", KNEE_ACTUATOR, "STIFFNESS_HIP")
Def_STIFFNESS_HIP ==
  Assign("STIFFNESS_HIP", "STIFFNESS_HIP", STIFFNESS_HIP, "DAMPING_HIP")
Def_DAMPING_HIP ==
  Assign("DAMPING_HIP", "DAMPING_HIP", DAMPING_HIP, "STIFFNESS_KNEE")
Def_STIFFNESS_KNEE ==
  Assign("STIFFNESS_KNEE", "STIFFNESS_KNEE", STIFFNESS_KNEE, "DAMPING_KNEE")
Def_DAMPING_KNEE ==
  Assign("DAMPING_KNEE", "DAMPING_KNEE", DAMPING_KNEE, "GO2_HIP_ACTUATOR_CFG")
Def_GO2_HIP_ACTUATOR_CFG ==
  Assign("GO2_HIP_ACTUATOR_CFG", "GO2_HIP_ACTUATOR_CFG", GO2_HIP_ACTUATOR_CFG,
         "GO2_KNEE_ACTUATOR_CFG")
Def_GO2_KNEE_ACTUATOR_CFG ==
  Assign("GO2_KNEE_ACTUATOR_CFG", "GO2_KNEE_ACTUATOR_CFG",
         GO2_KNEE_ACTUATOR_CFG, "INIT_STATE")
Def_INIT_STATE ==
  Assign("INIT_STATE", "INIT_STATE", INIT_STATE, "FEET_ONLY_COLLISION")
Def_FEET_ONLY_COLLISION ==
  Assign("FEET_ONLY_COLLISION", "FEET_ONLY_COLLISION", FEET_ONLY_COLLISION,
         "FULL_COLLISION")
Def_FULL_COLLISION ==
  Assign("FULL_COLLISION", "FULL_COLLISION", FULL_COLLISION, "GO2_ARTICULATION")
Def_GO2_ARTICULATION ==
  Assign("GO2_ARTICULATION", "GO2_ARTICULATION", GO2_ARTICULATION,
         "GO2_ACTION_SCALE")
\* GO2_ACTION_SCALE: dict[str, float] = {}
Def_GO2_ACTION_SCALE ==
  Assign("GO2_ACTION_SCALE", "GO2_ACTION_SCALE", <<>>, "ACTION_SCALE_MULTIPLIER")
Def_ACTION_SCALE_MULTIPLIER ==
  Assign("ACTION_SCALE_MULTIPLIER", "ACTION_SCALE_MULTIPLIER",
         ACTION_SCALE_MULTIPLIER, "for_a")

(***************************************************************************)
(* for a in GO2_ARTICULATION.actuators: ... for n in names: ...            *)
(* The loop variables a, e, s, names and n are module globals.             *)
(***************************************************************************)
\* ACTION_SCALE_MULTIPLIER * (e / s)
ActionScale(m, e, s) == Mul(m, Div(e, s))

\* the for statement takes the next actuator group and runs the body up to
\* the inner loop, or ends the module when the groups are exhausted
ForActuator ==
  /\ pc = "for_a"
  /\ LET acts == ns["GO2_ARTICULATION"].actuators
     IN  IF ai = Len(acts)
         THEN /\ pc' = "done"
              /\ UNCHANGED <<ns, ai, ni, err>>
         ELSE LET a == acts[ai + 1]
                  ns1 == ("a" :> a) @@ ns
                  ns2 == ("e" :> a.effort_limit) @@ ("s" :> a.stiffness)
                         @@ ("names" :> a.joint_names_expr) @@ ns1
              IN  /\ ai' = ai + 1
                  /\ ni' = 0
                  /\ IF a.cls # "BuiltinPositionActuatorCfg"
                     THEN ns' = ns1 /\ pc' = "error" /\ err' = "AssertionError"
                     ELSE IF a.effort_limit = None
                     THEN ns' = ns2 /\ pc' = "error" /\ err' = "AssertionError"
                     ELSE ns' = ns2 /\ pc' = "for_n" /\ err' = err
  /\ UNCHANGED <<writes, returned, call, resolved>>

\* the inner for statement takes the next pattern and stores its scale, or
\* goes back to the outer loop when the patterns are exhausted
ForName ==
  /\ pc = "for_n"
  /\ LET names == ns["names"]
     IN  IF ni = Len(names)
         THEN /\ pc' = "for_a"
              /\ UNCHANGED <<ns, ni, err, writes>>
         ELSE LET n == names[ni + 1]
                  ns1 == ("n" :> n) @@ ns
                  v == ActionScale(ns["ACTION_SCALE_MULTIPLIER"], The(ns["e"]),
                                   ns["s"])
              IN  /\ ni' = ni + 1
                  /\ IF IsZero(ns["s"])
                     THEN /\ ns' = ns1
                          /\ pc' = "error"
                          /\ err' = "ZeroDivisionError"
                          /\ writes' = writes
                     ELSE /\ ns' = ("GO2_ACTION_SCALE" :>
                                      DictSet(ns["GO2_ACTION_SCALE"], n, v)) @@ ns1
                          /\ pc' = "for_n"
                          /\ err' = err
                          /\ writes' = Append(writes,
                                         [group |-> ai, key |-> n, value |-> v])
  /\ UNCHANGED <<ai, returned, call, resolved>>

(***************************************************************************)
(* def get_go2_robot_cfg() -> EntityCfg, callable once the module is       *)
(* imported.  spec_fn is kept by name: loading the MJCF is not modelled.   *)
(* The configuration returned is a new one, which no consumer has resolved *)
(* yet.                                                                    *)
(***************************************************************************)
EntityCfg(init_state, collisions, spec_fn, articulation) ==
  [init_state |-> init_state, collisions |-> collisions, spec_fn |-> spec_fn,
   articulation |-> articulation]

\* variant: the factory drops an actuator group from the module object
get_go2_robot_cfg_pops ==
  /\ pc = "done"
  /\ Len(returned) < MaxCalls
  /\ returned' = Append(returned,
       EntityCfg(ns["INIT_STATE"], <<ns["FULL_COLLISION"]>>, "get_spec",
                 ns["GO2_ARTICULATION"]))
  /\ ns' = [ns EXCEPT !["GO2_ARTICULATION"].actuators = Tail(@)]
  /\ resolved' = NoResult
  /\ UNCHANGED <<pc, ai, ni, err, writes, call>>
get_go2_robot_cfg ==
  /\ pc = "done"
  /\ Len(returned) < MaxCalls
  /\ returned' = Append(returned,
       EntityCfg(ns["INIT_STATE"], <<ns["FULL_COLLISION"]>>, "get_spec",
                 ns["GO2_ARTICULATION"]))
  /\ resolved' = NoResult
  /\ UNCHANGED <<pc, ns, ai, ni, err, writes, call>>

(***************************************************************************)
(* Pattern selector and override resolver (mjlab.utils.spec_config and the *)
(* entity that consumes the configuration).                                *)
(*   resolve(element_names, selector_patterns, property, default)          *)
(* A property is Scalar(v) or Patterned(entries), the entries being        *)
(* [pat, val, prio] in declaration order.                                  *)
(***************************************************************************)
Patterned(entries) == [shape |-> "patterned", value |-> 0, items |-> entries]

\* A configuration field as a property: a dict declares its keys in order,
\* each key's declared priority being its place in the dict.
AsProperty(field) ==
  IF field.shape = "scalar" THEN field
  ELSE Patterned([i \in DOMAIN field.items |->
                   [pat |-> field.items[i][1], val |-> field.items[i][2],
                    prio |-> i]])

Range(s) == {s[i] : i \in DOMAIN s}
Min(S) == CHOOSE x \in S : \A y \in S : x <= y

\* step 1: the element is matched by one of the selector's patterns
Selected(name, sel) == \E p \in Range(sel) : Match(p, name)

\* the override keys that match the element
MatchingKeys(name, entries) ==
  {i \in DOMAIN entries : Match(entries[i].pat, name)}

\* step 5: two matching keys of equal declared priority disagree
Conflict(name, entries) ==
  \E i, j \in MatchingKeys(name, entries) :
    /\ i < j
    /\ entries[i].prio = entries[j].prio
    /\ entries[i].val # entries[j].val

Outcome(status, val) == [status |-> status, val |-> val]

\* variant: no conflict detection, the first matching key wins silently
ResolveElement_silent(name, sel, prop, default) ==
  IF ~Selected(name, sel) THEN Outcome("excluded", None)
  ELSE IF prop.shape = "scalar" THEN Outcome("ok", Some(prop.value))
  ELSE IF MatchingKeys(name, prop.items) # {}
    THEN Outcome("ok", Some(prop.items[Min(MatchingKeys(name, prop.items))].val))
  ELSE IF default # None THEN Outcome("ok", default)
  ELSE Outcome("no override defined for matched element", None)
\* steps 2 to 5 for one element
ResolveElement(name, sel, prop, default) ==
  IF ~Selected(name, sel) THEN Outcome("excluded", None)
  ELSE IF prop.shape = "scalar" THEN Outcome("ok", Some(prop.value))
  ELSE LET entries == prop.items
           M == MatchingKeys(name, entries)
           fallback == {i \in DOMAIN entries : entries[i].pat = ".*"}
       IN  IF Conflict(name, entries)
             THEN Outcome("OverrideConflictError", None)
           ELSE IF M # {} THEN Outcome("ok", Some(entries[Min(M)].val))
           ELSE IF fallback # {} THEN Outcome("ok", Some(entries[Min(fallback)].val))
           ELSE IF default # None THEN Outcome("ok", default)
           ELSE Outcome("no override defined for matched element", None)

\* the elements from the i-th on, all or nothing: the first failing element
\* fails the resolution
RECURSIVE ResolveFrom(_, _, _, _, _)
ResolveFrom(names, i, sel, prop, default) ==
  IF i > Len(names) THEN [error |-> "", map |-> <<>>]
  ELSE LET r == ResolveElement(names[i], sel, prop, default)
           rest == ResolveFrom(names, i + 1, sel, prop, default)
       IN  IF r.status = "excluded" THEN rest
           ELSE IF r.status # "ok" THEN [error |-> r.status, map |-> <<>>]
           ELSE IF rest.error # "" THEN rest
           ELSE [error |-> "", map |-> <<<<names[i], The(r.val)>>>> \o rest.map]

resolve(names, sel, prop, default) == ResolveFrom(names, 1, sel, prop, default)

(***************************************************************************)
(* The element lists the loaded model may supply: the sub-lists, in model  *)
(* order, of the names below, up to MaxElems long.                         *)
(***************************************************************************)
JointNames ==
  <<"FL_hip_joint", "FL_thigh_joint", "FL_calf_joint",
    "FR_hip_joint", "FR_thigh_joint", "FR_calf_joint",
    "RL_hip_joint", "RL_thigh_joint", "RL_calf_joint",
    "RR_hip_joint", "RR_thigh_joint", "RR_calf_joint">>

GeomNames ==
  <<"FL_foot_collision", "FR_foot_collision", "RL_foot_collision",
    "RR_foot_collision", "FL_calf_collision", "RR_calf_collision",
    "FL_foot_visual">>

SubLists(all) ==
  {[i \in DOMAIN f |-> all[f[i]]] :
     f \in {g \in UNION {[1..m -> DOMAIN all] : m \in 0..MaxElems} :
              \A i, j \in DOMAIN g : i < j => g[i] < g[j]}}

JointLists == SubLists(JointNames)
GeomLists == SubLists(GeomNames)
LawLists == SubLists(<<"A", "B">>)

CollisionFields ==
  {"contype", "conaffinity", "condim", "priority", "friction", "solimp"}

\* the defaults a caller may hand to resolve: none, or one per field
NoDefaults == [f \in CollisionFields |-> None]
FieldDefaults ==
  [contype |-> Some(1), conaffinity |-> Some(1), condim |-> Some(6),
   priority |-> Some(0), friction |-> Some(<<Q(1, 1)>>),
   solimp |-> Some(<<Q(9, 10), Q(95, 100), Q(1, 1000)>>)]
DefaultInputs == {NoDefaults, FieldDefaults}

\* The consumer resolves the configuration it was handed last, once: every
\* field of its collision group against the model's geometry names
ResolveCollisions ==
  /\ pc = "done"
  /\ returned # <<>>
  /\ resolved = NoResult
  /\ \E names \in GeomLists, dflt \in DefaultInputs :
       LET g == returned[Len(returned)].collisions[1]
       IN  resolved' =
             [op |-> "collisions", names |-> names, default |-> dflt,
              fields |-> [f \in CollisionFields |->
                resolve(names, g.geom_names_expr, AsProperty(g[f]), dflt[f])]]
  /\ UNCHANGED <<pc, ns, ai, ni, err, writes, returned, call>>

\* or, for each joint of the model, the actuator groups whose patterns match
\* it and the items of init_state.joint_pos whose key matches
ResolveJoints ==
  /\ pc = "done"
  /\ returned # <<>>
  /\ resolved = NoResult
  /\ \E names \in JointLists :
       LET acts == returned[Len(returned)].articulation.actuators
           jp == returned[Len(returned)].init_state.joint_pos
       IN  resolved' =
             [op |-> "joints", names |-> names,
              groups |-> [i \in DOMAIN names |->
                {gi \in DOMAIN acts :
                   Selected(names[i], acts[gi].joint_names_expr)}],
              pos |-> [i \in DOMAIN names |->
                {jp[x] : x \in {y \in DOMAIN jp : Match(jp[y][1], names[i])}}]]
  /\ UNCHANGED <<pc, ns, ai, ni, err, writes, returned, call>>

(***************************************************************************)
(* The program: the module is imported, then the factory is called and the *)
(* returned configurations are resolved.                                   *)
(***************************************************************************)
Init ==
  /\ pc = "HIP_ACTUATOR"
  /\ ns = <<>>
  /\ ai = 0
  /\ ni = 0
  /\ err = ""
  /\ writes = <<>>
  /\ returned = <<>>
  /\ call = NoCall
  /\ resolved = NoResult

Next ==
  \/ Def_HIP_ACTUATOR
  \/ Def_KNEE_ACTUATOR
  \/ Def_STIFFNESS_HIP
  \/ Def_DAMPING_HIP
  \/ Def_STIFFNESS_KNEE
  \/ Def_DAMPING_KNEE
  \/ Def_GO2_HIP_ACTUATOR_CFG
  \/ Def_GO2_KNEE_ACTUATOR_CFG
  \/ Def_INIT_STATE
  \/ Def_FEET_ONLY_COLLISION
  \/ Def_FULL_COLLISION
  \/ Def_GO2_ARTICULATION
  \/ Def_GO2_ACTION_SCALE
  \/ Def_ACTION_SCALE_MULTIPLIER
  \/ ForActuator
  \/ ForName
  \/ get_go2_robot_cfg
  \/ ResolveCollisions
  \/ ResolveJoints

Spec == Init /\ [][Next]_vars

(***************************************************************************)
(* The action-scale loop on its own, over actuator groups drawn from a     *)
(* small set: effort limits present or None, stiffness negative, zero or   *)
(* positive.                                                               *)
(***************************************************************************)
StiffnessInputs == {Q(-2, 1), Q(0, 1), Q(1, 2), Q(3, 1)}
EffortInputs == {None, Some(Q(237, 10)), Some(Q(4543, 100))}
PatternInputs ==
  {<<".*_hip_joint", ".*_thigh_joint">>, <<".*_calf_joint">>}
GroupInputs ==
  {BuiltinPositionActuatorCfg(names, st, Q(1, 1), el, Q(1, 100)) :
     names \in PatternInputs, st \in StiffnessInputs, el \in EffortInputs}
ActuatorInputs == UNION {[1..m -> GroupInputs] : m \in 1..2}

InitDerive ==
  /\ pc = "for_a"
  /\ \E acts \in ActuatorInputs :
       ns = ("GO2_ARTICULATION" :>
               [actuators |-> acts, soft_joint_pos_limit_factor |-> Q(9, 10)])
            @@ ("GO2_ACTION_SCALE" :> <<>>)
            @@ ("ACTION_SCALE_MULTIPLIER" :> ACTION_SCALE_MULTIPLIER)
  /\ ai = 0
  /\ ni = 0
  /\ err = ""
  /\ writes = <<>>
  /\ returned = <<>>
  /\ call = NoCall
  /\ resolved = NoResult

NextDerive == ForActuator \/ ForName

SpecDerive == InitDerive /\ [][NextDerive]_vars

(***************************************************************************)
(* resolve on its own, over arguments drawn from small sets: the           *)
(* overrides of the precedence and conflict laws over elements "A" and     *)
(* "B", and the fields of FULL_COLLISION over geometry names.              *)
(***************************************************************************)
EntryInputs ==
  {[pat |-> p, val |-> v, prio |-> q] :
     p \in {"^A$", ".*"}, v \in {1, 2}, q \in {1, 2}}
OverrideInputs == UNION {[1..m -> EntryInputs] : m \in 1..2}

PropertyInputs == {Scalar(1)} \cup {Patterned(o) : o \in OverrideInputs}

Call(names, sel, prop, default) ==
  [names |-> names, sel |-> sel, prop |-> prop, default |-> default]

InitResolve ==
  /\ pc = "call"
  /\ \/ \E names \in LawLists, sel \in {<<".*">>, <<"^A$">>},
          prop \in PropertyInputs, d \in {None, Some(0)} :
          call = Call(names, sel, prop, d)
     \/ \E names \in GeomLists, f \in CollisionFields, d \in DefaultInputs :
          call = Call(names, FULL_COLLISION.geom_names_expr,
                      AsProperty(FULL_COLLISION[f]), d[f])
  /\ ns = <<>>
  /\ ai = 0
  /\ ni = 0
  /\ err = ""
  /\ writes = <<>>
  /\ returned = <<>>
  /\ resolved = NoResult

ResolveCall ==
  /\ pc = "call"
  /\ resolved' = [op |-> "resolve",
                  result |-> resolve(call.names, call.sel, call.prop, call.default)]
  /\ pc' = "returned"
  /\ UNCHANGED <<ns, ai, ni, err, writes, returned, call>>

NextResolve == ResolveCall

SpecResolve == InitResolve /\ [][NextResolve]_vars
(***************************************************************************)
(* Properties.                                                             *)
(***************************************************************************)
ScaleDict == ns["GO2_ACTION_SCALE"]
Actuators == ns["GO2_ARTICULATION"].actuators

\* C1: after module initialization the keys of GO2_ACTION_SCALE are exactly
\* the joint patterns of the actuator groups of GO2_ARTICULATION, that is
\* '.*_hip_joint', '.*_thigh_joint' and '.*_calf_joint', each key once, and
\* no pattern was written by more than one group.
C1_ScaleKeys ==
  pc = "done" =>
    /\ DictKeys(ScaleDict) = {".*_hip_joint", ".*_thigh_joint", ".*_calf_joint"}
    /\ DictKeys(ScaleDict) =
         UNION {Range(Actuators[g].joint_names_expr) : g \in DOMAIN Actuators}
    /\ \A k \in DictKeys(ScaleDict) : DictCount(ScaleDict, k) = 1
    /\ \A i, j \in DOMAIN writes :
         writes[i].key = writes[j].key => writes[i].group = writes[j].group
    /\ \A g, h \in DOMAIN Actuators :
         g # h => Range(Actuators[g].joint_names_expr)
                    \cap Range(Actuators[h].joint_names_expr) = {}

C1_Witness == pc = "done" /\ Len(ScaleDict) = 3 /\ Len(writes) = 3

\* C2: every value of the action-scale map is 0.25 * (effort_limit /
\* stiffness) of the group whose pattern the key is; the value for
\* '.*_hip_joint' is 0.25 * 23.7 / STIFFNESS_HIP and the value for
\* '.*_calf_joint' is 0.25 * 45.43 / STIFFNESS_KNEE.
C2_ScaleValues ==
  (pc \in {"for_a", "for_n", "done"}) =>
    /\ \A i \in DOMAIN ScaleDict :
         /\ \E g \in DOMAIN Actuators :
              ScaleDict[i][1] \in Range(Actuators[g].joint_names_expr)
         /\ \A g \in DOMAIN Actuators :
              ScaleDict[i][1] \in Range(Actuators[g].joint_names_expr) =>
                ScaleDict[i][2] =
                  Mul(Q(1, 4), Div(The(Actuators[g].effort_limit),
                                   Actuators[g].stiffness))
    /\ pc = "done" =>
         /\ DictGet(ScaleDict, ".*_hip_joint") =
              Div(Mul(Q(1, 4), Q(237, 10)), ns["STIFFNESS_HIP"])
         /\ DictGet(ScaleDict, ".*_calf_joint") =
              Div(Mul(Q(1, 4), Q(4543, 100)), ns["STIFFNESS_KNEE"])
         /\ DictGet(ScaleDict, ".*_calf_joint") # DictGet(ScaleDict, ".*_hip_joint")

C2_Witness ==
  /\ pc = "done"
  /\ DictHas(ScaleDict, ".*_hip_joint")
  /\ DictHas(ScaleDict, ".*_calf_joint")

FootGeoms == {"FL_foot_collision", "FR_foot_collision", "RL_foot_collision",
              "RR_foot_collision"}

\* the elements of the resolved list that the collision group selects
SelectedGeoms ==
  {n \in Range(resolved.names) :
     Selected(n, ns["FULL_COLLISION"].geom_names_expr)}

OverrideFields == {"condim", "priority", "friction", "solimp"}

LawOverrides == AsProperty(Mapping(<< <<"^A$", 1>>, <<".*", 2>> >>))

\* C6: a successful resolution of a pattern-to-value mapping gives each
\* element the value of the first key, in declaration order, that matches
\* it: with {'^A$': 1, '.*': 2} element 'A' gets 1, and with
\* FULL_COLLISION.condim every foot geometry gets 3.
C6_FirstKeyWins ==
  (pc = "returned" /\ call.prop.shape = "patterned") =>
    /\ resolved.result.error = "" =>
         \A i \in DOMAIN resolved.result.map :
           LET n == resolved.result.map[i][1]
               M == MatchingKeys(n, call.prop.items)
           IN  M # {} => resolved.result.map[i][2] = call.prop.items[Min(M)].val
    /\ (call.prop = LawOverrides /\ call.sel = <<".*">>
        /\ "A" \in Range(call.names)) =>
         /\ resolved.result.error = ""
         /\ DictGet(resolved.result.map, "A") = 1
    /\ (call.sel = FULL_COLLISION.geom_names_expr /\ Len(call.prop.items) = 2) =>
         /\ call.prop = AsProperty(FULL_COLLISION.condim)
         /\ resolved.result.error = ""
         /\ \A n \in Range(call.names) \cap FootGeoms :
              DictGet(resolved.result.map, n) = 3

C6_Witness ==
  /\ pc = "returned"
  /\ call.prop = LawOverrides
  /\ call.names = <<"A", "B">>
  /\ call.sel = <<".*">>
  /\ resolved.result.map = << <<"A", 1>>, <<"B", 2>> >>

\* the values that the matching keys of declared priority q give element n
ValuesAt(n, entries, q) ==
  {entries[i].val : i \in {j \in MatchingKeys(n, entries) : entries[j].prio = q}}

C8_GainRatio ==
  pc = "done" =>
    LET hip == ns["HIP_ACTUATOR"].reflected_inertia
        knee == ns["KNEE_ACTUATOR"].reflected_inertia
    IN  /\ Div(ns["STIFFNESS_KNEE"], ns["STIFFNESS_HIP"]) = Q(4, 1)
        /\ Div(ns["DAMPING_KNEE"], ns["DAMPING_HIP"]) = Q(4, 1)
        /\ Div(knee, hip) = Q(4, 1)
        /\ Sq(Q(KNEE_GEAR_RATIO, HIP_GEAR_RATIO)) = Q(4, 1)
        /\ ns["STIFFNESS_HIP"] = Mul(hip, Sq(NATURAL_FREQ))
        /\ ns["STIFFNESS_KNEE"] = Mul(knee, Sq(NATURAL_FREQ))
        /\ ns["DAMPING_HIP"] = Mul(Mul(Q(2, 1), DAMPING_RATIO), Mul(hip, NATURAL_FREQ))
        /\ ns["DAMPING_KNEE"] = Mul(Mul(Q(2, 1), DAMPING_RATIO), Mul(knee, NATURAL_FREQ))
        /\ Div(Actuators[2].stiffness, Actuators[1].stiffness) = Q(4, 1)
        /\ Div(Actuators[2].damping, Actuators[1].damping) = Q(4, 1)

C8_Witness ==
  /\ pc = "done"
  /\ ns["STIFFNESS_KNEE"] # ns["STIFFNESS_HIP"]
  /\ Actuators[2].stiffness = ns["STIFFNESS_KNEE"]

\* C9: once the module is initialized no step changes a module-level object,
\* and every configuration returned so far carries the module's INIT_STATE,
\* FULL_COLLISION and GO2_ARTICULATION.
C9_ModuleFrozen ==
  [][pc = "done" =>
       /\ ns' = ns
       /\ pc' = "done"
       /\ \A k \in DOMAIN returned' :
            /\ returned'[k].init_state = ns["INIT_STATE"]
            /\ returned'[k].collisions = <<ns["FULL_COLLISION"]>>
            /\ returned'[k].articulation = ns["GO2_ARTICULATION"]
            /\ returned'[k] = returned'[1]]_vars

C9_Witness == pc = "done" /\ Len(returned) >= 2 /\ resolved # NoResult

LegOrder == <<"FL", "FR", "RL", "RR">>
PartOrder == <<"hip", "thigh", "calf">>
\* the joint <leg>_<part>_joint
JointOf(l, p) == JointNames[3 * (l - 1) + p]

\* C10: every joint <leg>_<part>_joint is matched by the patterns of exactly
\* one actuator group (hip and thigh by the hip group, calf by the knee
\* group) and by exactly one key of INIT_STATE.joint_pos: thigh 0.9,
\* calf -1.8, FR and RR hip 0.1, FL and RL hip -0.1.
C10_OneGroupOnePosition ==
  resolved.op = "joints" =>
    \A i \in DOMAIN resolved.names :
      \A l \in DOMAIN LegOrder, p \in DOMAIN PartOrder :
        resolved.names[i] = JointOf(l, p) =>
          /\ Chars(JointOf(l, p)) =
               LegChars(LegOrder[l]) \o <<"_">> \o PartChars(PartOrder[p])
               \o Sfx_joint
          /\ resolved.groups[i] = IF PartOrder[p] = "calf" THEN {2} ELSE {1}
          /\ resolved.pos[i] =
               IF PartOrder[p] = "thigh" THEN {<<".*thigh_joint", Q(9, 10)>>}
               ELSE IF PartOrder[p] = "calf" THEN {<<".*calf_joint", Q(-18, 10)>>}
               ELSE IF LegOrder[l] \in {"FR", "RR"}
                 THEN {<<".*R_hip_joint", Q(1, 10)>>}
               ELSE {<<".*L_hip_joint", Q(-1, 10)>>}

C10_Witness ==
  /\ resolved.op = "joints"
  /\ resolved.names = <<"RL_hip_joint", "RR_calf_joint">>
  /\ resolved.groups = <<{1}, {2}>>
====
